---- MODULE Spec2Model ----
(***************************************************************************)
(* Model of the stderr-tailing wrapper of src/runtime.py:                  *)
(*   _tail_file_lines                      (lines 152-180)                 *)
(*   LoggedMCPStdioTool.get_mcp_client._client   (lines 210-246)           *)
(*                                                                         *)
(* Two asyncio tasks share one event loop: the session coroutine _client   *)
(* and the tailing task.  A task runs from one suspension point to the     *)
(* next without the other task running in between; the writers of the log  *)
(* file are other processes and may append between any two steps.          *)
(* The log file is a sequence of bytes; a record of the sink carries the   *)
(* message the code passes to logger.info and, as a history field, the     *)
(* file offset of the line the message was cut from.                       *)
(***************************************************************************)
EXTENDS Integers, Sequences, FiniteSets, TLC

\* ---- bounds of the model ----
MaxFile == 3      \* most bytes ever written to the log file
MaxPre == 2       \* longest content the file holds before the session

Byte == {"a", " ", "\n"}

Prefix == <<"W">>     \* stands for prefix="WorkIQ(mcp stderr): "

VARIABLES
  pc,          \* position of the _client coroutine
  tail_pc,     \* position of the _tail_file_lines task ("none": no task)
  echo,        \* self._echo_stderr
  file,        \* bytes of the file at self._stderr_log_path
  errlog,      \* the handle errlog: "unopened", "open", "closed"
  transport,   \* errlog argument the transport was launched with
  stop,        \* asyncio.Event stop
  position,    \* local variable position of _tail_file_lines
  chunk,       \* local variable chunk of _tail_file_lines
  sink,        \* records passed to logger.info, in order
  exc,         \* exception propagating out of the try block ("none")
  raised,      \* what the caller of the session scope finally sees
  cancelReq,   \* a cancellation of the tailing task is pending
  startLen,    \* history: file length when errlog was opened
  lenAtStop,   \* history: file length when stop.set() ran (-1 before)
  polled,      \* history: the path was stat'ed or opened for reading
  hadFail,     \* history: a poll of this session failed with OSError
  lastRead,    \* history: outcome of the latest poll: "none", "ok", "fail"
  initPos,     \* history: the first value of position (-1 before)
  consumed,    \* history: all chunks read so far, concatenated
  flushRes,    \* history: outcome of errlog.flush()
  closeRes,    \* history: outcome of errlog.close()
  written,     \* history: bytes written to the file so far
  earlyChild   \* history: offset of the first byte the child wrote while
               \* the tailing task still waits for its first step (-1:
               \* none, or the step has been taken)

vars == <<pc, tail_pc, echo, file, errlog, transport, stop, position, chunk,
          sink, exc, raised, cancelReq, startLen, lenAtStop, polled, hadFail,
          lastRead, initPos, consumed, flushRes, closeRes, written,
                 earlyChild>>

sessionVars == <<pc, errlog, transport, stop, exc, raised, startLen,
                 lenAtStop, flushRes, closeRes, written>>
tailVars == <<position, chunk, sink, polled, hadFail, lastRead, initPos,
             consumed>>

\* ---- pure helpers -------------------------------------------------------

SeqsUpTo(S, n) == UNION {[1..k -> S] : k \in 0..n}

Min(S) == CHOOSE x \in S : \A y \in S : x <= y

NewlineIdx(s) == {i \in 1..Len(s) : s[i] = "\n"}

\* str.splitlines(): the pieces between line ends; no empty piece after a
\* final line end.  Each piece keeps the offset it starts at.
RECURSIVE SplitLines(_, _)
SplitLines(s, off) ==
  IF s = <<>> THEN <<>>
  ELSE IF NewlineIdx(s) = {} THEN <<[text |-> s, off |-> off]>>
  ELSE LET i == Min(NewlineIdx(s))
       IN <<[text |-> SubSeq(s, 1, i - 1), off |-> off]>>
            \o SplitLines(SubSeq(s, i + 1, Len(s)), off + i)

\* str.strip(): drop the white space at both ends.
RECURSIVE Strip(_)
Strip(t) ==
  IF t = <<>> THEN t
  ELSE IF Head(t) = " " THEN Strip(Tail(t))
  ELSE IF t[Len(t)] = " " THEN Strip(SubSeq(t, 1, Len(t) - 1))
  ELSE t

\* The records the for-loop of _tail_file_lines emits for one chunk read at
\* file offset base.
RECURSIVE RecordsOf(_)
RecordsOf(ls) ==
  IF ls = <<>> THEN <<>>
  ELSE LET text == Strip(Head(ls).text)
       IN (IF text # <<>>
           THEN <<[msg |-> Prefix \o text, off |-> Head(ls).off]>>
           ELSE <<>>) \o RecordsOf(Tail(ls))

Records(c, base) == RecordsOf(SplitLines(c, base))

\* os.path.getsize(path), falling back to 0 on OSError.
InitialPosition(ok, flen) == IF ok THEN flen ELSE 0

\* f.seek(position); chunk = f.read(): the bytes from position to the end.
ReadFrom(f, pos) == IF pos < Len(f) THEN SubSeq(f, pos + 1, Len(f)) ELSE <<>>

\* Variant: the cursor is set to the size of the file instead of f.tell().
TellAfterRead_Size(pos, flen) == flen

\* position = f.tell() after the read: the end of what was read; a seek
\* past the end of the file stays where it is.
TellAfterRead(pos, flen) == IF flen > pos THEN flen ELSE pos

\* Variant: a failed poll starts over from the beginning of the file.
PositionOnReadError_Reset(pos) == 0

\* except OSError: chunk = "" - position keeps its value.
PositionOnReadError(pos) == pos

\* Variant: the loop never looks at the stop event.
LoopContinues_Always(s) == TRUE

\* while not stop.is_set()
LoopContinues(s) == ~s

\* Variant: the task is created whatever the echo flag says.
TailTaskAfterSetup_Always(e) == "created"

\* if self._echo_stderr: tail_task = asyncio.create_task(...)
TailTaskAfterSetup(e) == IF e THEN "created" ELSE "none"

\* os.makedirs / open outside any try: the error leaves _client.
AfterSetup(outcome) == IF outcome = "ok" THEN "launch" ELSE "failed"

\* Variant: the finally block sets the event and does not await the task.
AfterStopSet_NoAwait(t) == "flush"

\* if tail_task is not None: await tail_task
AfterStopSet(t) == IF t = "none" THEN "flush" ELSE "await_tail"

\* Variant: errlog.close() is not guarded.
Caught_CloseUnguarded(step, err) ==
  IF step = "await" THEN err \in {"CancelledError", "Exception"}
  ELSE step = "flush" /\ err = "Exception"

\* The except clauses of the finally block: step "await" catches
\* asyncio.CancelledError and Exception, steps "flush" and "close" catch
\* Exception.
Caught(step, err) ==
  IF step = "await" THEN err \in {"CancelledError", "Exception"}
  ELSE err = "Exception"

TailSuspended == tail_pc \in {"none", "created", "sleep", "done", "cancelled", "crashed"}
TailFinished == tail_pc \in {"done", "cancelled", "crashed"}
SessionSuspended ==
  pc \in {"launch", "spawned", "body", "exiting", "await_tail", "done"}

\* The child process of stdio_client exists from its spawn until the
\* transport is left.
ChildRunning == pc \in {"spawned", "body", "exiting"}

\* ---- initial state ------------------------------------------------------

Init ==
  /\ pc = "start"
  /\ tail_pc = "none"
  /\ echo \in BOOLEAN
  /\ file \in SeqsUpTo(Byte, MaxPre)
  /\ errlog = "unopened"
  /\ transport = "none"
  /\ stop = FALSE
  /\ position = 0
  /\ chunk = <<>>
  /\ sink = <<>>
  /\ exc = "none"
  /\ raised = "none"
  /\ cancelReq = FALSE
  /\ startLen = 0
  /\ lenAtStop = -1
  /\ polled = FALSE
  /\ hadFail = FALSE
  /\ lastRead = "none"
  /\ initPos = -1
  /\ consumed = <<>>
  /\ flushRes = "none"
  /\ closeRes = "none"
  /\ written = Len(file)
  /\ earlyChild = -1

\* ---- the writers of the log file ----------------------------------------

\* The child process (through the redirected handle) or any other writer
\* appends one byte; a line may arrive in several pieces.
WriterAppend ==
  /\ pc \notin {"start", "failed", "done"}
  /\ written < MaxFile
  /\ \E b \in Byte : file' = Append(file, b)
  /\ written' = written + 1
  /\ earlyChild' = IF ChildRunning /\ tail_pc = "created" /\ earlyChild = -1
                   THEN Len(file) ELSE earlyChild
  /\ UNCHANGED <<pc, errlog, transport, stop, exc, raised, startLen,
                 lenAtStop, flushRes, closeRes>>
  /\ UNCHANGED <<tail_pc, echo, cancelReq>>
  /\ UNCHANGED tailVars

\* The file is replaced by a fresh, empty one (log rotation).
Truncate ==
  /\ pc \notin {"start", "failed", "done"}
  /\ Len(file) > 0
  /\ file' = <<>>
  /\ UNCHANGED <<tail_pc, echo, cancelReq>>
  /\ UNCHANGED tailVars
  /\ UNCHANGED sessionVars
  /\ UNCHANGED earlyChild

\* ---- _client ------------------------------------------------------------

\* Lines 212-225: makedirs, open for append, Event(), create_task.
Setup ==
  /\ pc = "start"
  /\ \E outcome \in {"ok", "mkdir", "open"} :
       /\ pc' = AfterSetup(outcome)
       /\ IF outcome = "ok"
          THEN /\ errlog' = "open"
               /\ startLen' = Len(file)
               /\ tail_pc' = TailTaskAfterSetup(echo)
               /\ raised' = raised
          ELSE /\ raised' = outcome
               /\ UNCHANGED <<errlog, startLen, tail_pc>>
  /\ UNCHANGED <<echo, file, transport, stop, exc, cancelReq, lenAtStop,
                 flushRes, closeRes, written,
                 earlyChild>>
  /\ UNCHANGED tailVars

\* Line 228: entering stdio_client(server=server, errlog=errlog) starts the
\* child process with errlog as its diagnostic stream.  _client does nothing
\* between create_task (line 218) and this call that lets the event loop
\* run, so the spawn may come before the tailing task's first step.
ChildSpawn ==
  /\ pc = "launch"
  /\ TailSuspended
  /\ pc' = "spawned"
  /\ transport' = errlog
  /\ UNCHANGED <<tail_pc, echo, file, errlog, stop, exc, raised, cancelReq,
                 startLen, lenAtStop, flushRes, closeRes, written,
                 earlyChild>>
  /\ UNCHANGED tailVars

\* Line 228: async with stdio_client(server=server, errlog=errlog) yields
\* the transport once the child runs, or fails before or after the spawn.
Launch ==
  /\ pc \in {"launch", "spawned"}
  /\ TailSuspended
  /\ \E ok \in BOOLEAN :
       IF ok THEN /\ pc = "spawned"
                  /\ pc' = "body"
                  /\ transport' = errlog
                  /\ exc' = exc
             ELSE /\ pc' = "finally"
                  /\ exc' = "launch"
                  /\ transport' = transport
  /\ UNCHANGED <<tail_pc, echo, file, errlog, stop, raised, cancelReq,
                 startLen, lenAtStop, flushRes, closeRes, written,
                 earlyChild>>
  /\ UNCHANGED tailVars

\* Line 229: the caller's body returns or raises at the yield.
BodyEnd ==
  /\ pc = "body"
  /\ TailSuspended
  /\ pc' = "exiting"
  /\ \E e \in {"none", "body"} : exc' = e
  /\ UNCHANGED <<tail_pc, echo, file, errlog, transport, stop, raised,
                 cancelReq, startLen, lenAtStop, flushRes, closeRes, written,
                 earlyChild>>
  /\ UNCHANGED tailVars

\* Line 228: stdio_client's exit; it may raise an error of its own.
TransportExit ==
  /\ pc = "exiting"
  /\ TailSuspended
  /\ pc' = "finally"
  /\ \E e \in {exc, "transport"} : exc' = e
  /\ UNCHANGED <<tail_pc, echo, file, errlog, transport, stop, raised,
                 cancelReq, startLen, lenAtStop, flushRes, closeRes, written,
                 earlyChild>>
  /\ UNCHANGED tailVars

\* The calling task is cancelled while suspended inside the try block:
\* CancelledError is thrown at the await and unwinds to the finally block.
Cancel ==
  /\ pc \in {"launch", "spawned", "body", "exiting"}
  /\ TailSuspended
  /\ pc' = IF pc = "body" THEN "exiting" ELSE "finally"
  /\ exc' = "cancel"
  /\ UNCHANGED <<tail_pc, echo, file, errlog, transport, stop, raised,
                 cancelReq, startLen, lenAtStop, flushRes, closeRes, written,
                 earlyChild>>
  /\ UNCHANGED tailVars

\* Lines 231-232: stop.set(); if tail_task is not None.
StopSet ==
  /\ pc = "finally"
  /\ TailSuspended
  /\ stop' = TRUE
  /\ lenAtStop' = Len(file)
  /\ pc' = AfterStopSet(tail_pc)
  /\ UNCHANGED <<tail_pc, echo, file, errlog, transport, exc, raised,
                 cancelReq, startLen, flushRes, closeRes, written,
                 earlyChild>>
  /\ UNCHANGED tailVars

\* Lines 233-238: await tail_task returns, or raises what the task ended
\* with (CancelledError if it was cancelled, its exception if it crashed).
AwaitTail ==
  /\ pc = "await_tail"
  /\ TailFinished
  /\ LET err == IF tail_pc = "cancelled" THEN "CancelledError"
                ELSE IF tail_pc = "crashed" THEN "Exception" ELSE "none"
     IN IF err = "none" \/ Caught("await", err)
        THEN pc' = "flush" /\ raised' = raised
        ELSE pc' = "done" /\ raised' = "teardown"
  /\ UNCHANGED <<tail_pc, echo, file, errlog, transport, stop, exc,
                 cancelReq, startLen, lenAtStop, flushRes, closeRes, written,
                 earlyChild>>
  /\ UNCHANGED tailVars

\* The calling task is cancelled while it awaits tail_task: Task.cancel()
\* forwards the request to the awaited task; if that task is already
\* finished the CancelledError is thrown at the await itself.
CancelWhileAwaiting ==
  /\ pc = "await_tail"
  /\ TailSuspended
  /\ ~cancelReq
  /\ IF TailFinished
     THEN /\ cancelReq' = cancelReq
          /\ IF Caught("await", "CancelledError")
             THEN pc' = "flush" /\ raised' = raised
             ELSE pc' = "done" /\ raised' = "teardown"
     ELSE /\ cancelReq' = TRUE
          /\ UNCHANGED <<pc, raised>>
  /\ UNCHANGED <<tail_pc, echo, file, errlog, transport, stop, exc,
                 startLen, lenAtStop, flushRes, closeRes, written,
                 earlyChild>>
  /\ UNCHANGED tailVars

\* Lines 239-242: errlog.flush(), which may fail.
Flush ==
  /\ pc = "flush"
  /\ \E ok \in BOOLEAN :
       /\ flushRes' = IF ok THEN "ok" ELSE "fail"
       /\ IF ok \/ Caught("flush", "Exception")
          THEN pc' = "close" /\ raised' = raised
          ELSE pc' = "done" /\ raised' = "teardown"
  /\ UNCHANGED <<tail_pc, echo, file, errlog, transport, stop, exc,
                 cancelReq, startLen, lenAtStop, closeRes, written,
                 earlyChild>>
  /\ UNCHANGED tailVars

\* Lines 243-246: errlog.close(), which may fail; the handle is released in
\* both cases.  The exception of the try block then continues to the caller.
Close ==
  /\ pc = "close"
  /\ \E ok \in BOOLEAN :
       /\ closeRes' = IF ok THEN "ok" ELSE "fail"
       /\ errlog' = "closed"
       /\ pc' = "done"
       /\ raised' = IF ok \/ Caught("close", "Exception") THEN exc ELSE "teardown"
  /\ UNCHANGED <<tail_pc, echo, file, transport, stop, exc, cancelReq,
                 startLen, lenAtStop, flushRes, written,
                 earlyChild>>
  /\ UNCHANGED tailVars

\* ---- _tail_file_lines ---------------------------------------------------

\* Lines 160-163: the first step of the task samples the file size.
TailStart ==
  /\ tail_pc = "created"
  /\ ~cancelReq
  /\ SessionSuspended
  /\ \E ok \in BOOLEAN : position' = InitialPosition(ok, Len(file))
  /\ initPos' = position'
  /\ polled' = TRUE
  /\ tail_pc' = "check"
  /\ UNCHANGED <<echo, file, chunk, sink, cancelReq, hadFail, lastRead,
                 consumed>>
  /\ UNCHANGED sessionVars
  /\ earlyChild' = -1

\* Line 165: while not stop.is_set().
TailCheck ==
  /\ tail_pc = "check"
  /\ tail_pc' = IF LoopContinues(stop) THEN "read" ELSE "done"
  /\ UNCHANGED <<echo, file, cancelReq>>
  /\ UNCHANGED tailVars
  /\ UNCHANGED sessionVars
  /\ UNCHANGED earlyChild

\* Lines 166-172: open, seek, read, tell; OSError gives an empty chunk.
TailRead ==
  /\ tail_pc = "read"
  /\ \E ok \in BOOLEAN :
       IF ok THEN /\ chunk' = ReadFrom(file, position)
                  /\ position' = TellAfterRead(position, Len(file))
                  /\ hadFail' = hadFail
                  /\ lastRead' = "ok"
             ELSE /\ chunk' = <<>>
                  /\ position' = PositionOnReadError(position)
                  /\ hadFail' = TRUE
                  /\ lastRead' = "fail"
  /\ consumed' = consumed \o chunk'
  /\ polled' = TRUE
  /\ tail_pc' = "emit"
  /\ UNCHANGED <<echo, file, sink, cancelReq, initPos>>
  /\ UNCHANGED sessionVars
  /\ UNCHANGED earlyChild

\* Lines 174-180: one logger.info per non-blank line, then the sleep.
TailEmit ==
  /\ tail_pc = "emit"
  /\ sink' = sink \o Records(chunk, position - Len(chunk))
  /\ tail_pc' = "sleep"
  /\ UNCHANGED <<echo, file, position, chunk, cancelReq, polled, hadFail,
                 lastRead, initPos, consumed>>
  /\ UNCHANGED sessionVars
  /\ UNCHANGED earlyChild

\* Line 178: logger.info raises something that is not an OSError (a failing
\* filter or handler); the task ends with that exception after k records.
TailCrash ==
  /\ tail_pc = "emit"
  /\ LET recs == Records(chunk, position - Len(chunk))
     IN /\ recs # <<>>
        /\ \E k \in 0..(Len(recs) - 1) : sink' = sink \o SubSeq(recs, 1, k)
  /\ tail_pc' = "crashed"
  /\ UNCHANGED <<echo, file, position, chunk, cancelReq, polled, hadFail,
                 lastRead, initPos, consumed>>
  /\ UNCHANGED sessionVars
  /\ UNCHANGED earlyChild

\* Line 180: asyncio.sleep returns.
TailWake ==
  /\ tail_pc = "sleep"
  /\ ~cancelReq
  /\ SessionSuspended
  /\ tail_pc' = "check"
  /\ UNCHANGED <<echo, file, cancelReq>>
  /\ UNCHANGED tailVars
  /\ UNCHANGED sessionVars
  /\ UNCHANGED earlyChild

\* A pending cancellation is delivered at the task's suspension point; the
\* coroutine has no handler for CancelledError.
TailCancelled ==
  /\ tail_pc \in {"created", "sleep"}
  /\ cancelReq
  /\ SessionSuspended
  /\ tail_pc' = "cancelled"
  /\ UNCHANGED <<echo, file, cancelReq>>
  /\ UNCHANGED tailVars
  /\ UNCHANGED sessionVars
  /\ UNCHANGED earlyChild

\* ---- specifications -----------------------------------------------------

SessionNext ==
  \/ Setup \/ ChildSpawn \/ Launch \/ BodyEnd \/ TransportExit \/ Cancel
  \/ StopSet \/ AwaitTail \/ CancelWhileAwaiting \/ Flush \/ Close

TailNext ==
  \/ TailStart \/ TailCheck \/ TailRead \/ TailEmit \/ TailCrash
  \/ TailWake \/ TailCancelled

Next == SessionNext \/ TailNext \/ WriterAppend

Spec == Init /\ [][Next]_vars

\* The same program with a log file that may also be rotated, for a session
\* with echo enabled on a fresh path.
InitT == Init /\ echo /\ file = <<>>

NextT == Next \/ Truncate

SpecT == InitT /\ [][NextT]_vars

\* The event loop runs every task that is ready: the tailing task's steps
\* and the steps of the finally block are taken once they can be.
Teardown == StopSet \/ AwaitTail \/ Flush \/ Close

\* The liveness properties concern the control of the two tasks only; they
\* are checked for sessions on a fresh path.
InitL == Init /\ file = <<>>

LiveSpec == InitL /\ [][Next]_vars /\ WF_vars(TailNext) /\ WF_vars(Teardown)

TypeOK ==
  /\ pc \in {"start", "failed", "launch", "spawned", "body", "exiting", "finally",
             "await_tail", "flush", "close", "done"}
  /\ tail_pc \in {"none", "created", "check", "read", "emit", "sleep",
                  "done", "cancelled", "crashed"}
  /\ position \in 0..(MaxFile + 1)
  /\ Len(file) <= MaxFile

\* ---- properties ---------------------------------------------------------

FileLines == SplitLines(file, 0)

TailOver == tail_pc \in {"none", "done", "cancelled", "crashed"}

\* C1: every non-blank line appended after errlog was opened and before
\* the session ended has been emitted by the time the tailing task
\* completes.
C1_NoLoss ==
  tail_pc = "done" =>
    \A k \in 1..Len(FileLines) :
      LET ln == FileLines[k]
      IN (/\ ln.off >= startLen
          /\ ln.off + Len(ln.text) < lenAtStop
          /\ Strip(ln.text) # <<>>)
         => \E i \in 1..Len(sink) :
              /\ sink[i].off = ln.off
              /\ sink[i].msg = Prefix \o Strip(ln.text)

\* C2: the handle is closed only after stop was set and the tailing task
\* has completed; the task returns only after stop was set; teardown is
\* past the await only when the task is over; after the session all three
\* have happened; and every entry into the finally block leads there.
C2_Ordered ==
  /\ (errlog = "closed" => stop /\ TailOver)
  /\ (pc \in {"flush", "close"} => stop /\ TailOver)
  /\ (tail_pc = "done" => stop)
  /\ (pc = "done" => stop /\ TailOver /\ errlog = "closed")

C2_TeardownTotalOrdered ==
  /\ []C2_Ordered
  /\ (pc = "finally") ~> (pc = "done")

C2_Witness ==
  /\ pc = "done"
  /\ errlog = "closed"
  /\ tail_pc = "cancelled"
  /\ exc = "cancel"

\* C3: the finally block runs all its steps and raises nothing of its own:
\* after it the caller sees exactly the exception that left the try block,
\* also when the task crashed or was cancelled and flush and close failed.
C3_TeardownNeverThrows ==
  /\ raised # "teardown"
  /\ (pc = "done" =>
        /\ raised = exc
        /\ flushRes # "none"
        /\ closeRes # "none"
        /\ errlog = "closed")

C3_Witness ==
  /\ pc = "done"
  /\ tail_pc = "crashed"
  /\ flushRes = "fail"
  /\ closeRes = "fail"
  /\ raised = "none"

\* C4: no record is cut from a line that was complete in the file before
\* errlog was opened.
C4_NoReplay ==
  \A i \in 1..Len(sink) :
    ~\E k \in 1..Len(FileLines) :
       /\ FileLines[k].off = sink[i].off
       /\ FileLines[k].off + Len(FileLines[k].text) < startLen

\* C5: a failure of makedirs or open does not reach the caller and does not
\* keep the transport from being launched.
C5_SetupFailureAbsorbed == pc # "failed" /\ raised \notin {"mkdir", "open"}

\* C6: with echo off there is no tailing task, the file is never stat'ed or
\* read, nothing is emitted; the transport is launched with the open handle
\* and the handle is closed at session end.
C6_EchoOffNoTail ==
  ~echo =>
    /\ tail_pc = "none"
    /\ ~polled
    /\ sink = <<>>
    /\ (pc \in {"body", "exiting"} => transport = "open" /\ errlog = "open")
    /\ (pc = "done" => errlog = "closed")

C6_Witness ==
  /\ ~echo
  /\ pc = "done"
  /\ transport = "open"
  /\ errlog = "closed"
  /\ Len(file) > startLen

\* C7: the records are, in order, lines of the file: each record is the
\* prefixed trimmed text of the file's line at its offset, and offsets
\* strictly increase.
C7_RecordsAreFileLines ==
  /\ \A i \in 1..Len(sink) :
       \E k \in 1..Len(FileLines) :
         /\ FileLines[k].off = sink[i].off
         /\ Prefix \o Strip(FileLines[k].text) = sink[i].msg
  /\ \A i, j \in 1..Len(sink) : i < j => sink[i].off < sink[j].off

\* C8: position never decreases, and a poll reads exactly the bytes between
\* the old and the new position, also when the poll fails or the file is
\* shorter than position.
C8_MonotonicCursor ==
  [][/\ position' >= position
     /\ (tail_pc = "read" /\ tail_pc' = "emit") =>
          chunk' = (IF position' > position
                    THEN SubSeq(file, position + 1, position')
                    ELSE <<>>)]_vars

C8_Witness ==
  /\ tail_pc = "sleep"
  /\ hadFail
  /\ lastRead = "ok"
  /\ Len(file) < position
  /\ Len(consumed) > 0

\* C9 as stated: once stop is set the task ends on its own, never by
\* cancellation.
C9_NeverCancelled == ~(stop /\ tail_pc = "cancelled")

\* C9 amended: once stop is set the task starts no further poll; it ends by
\* cancellation only when the calling task was cancelled while awaiting it;
\* and the await of the finally block always completes.
C9_StopHonoured ==
  /\ [][stop => ~(tail_pc = "read" /\ tail_pc' = "emit")]_vars
  /\ [](tail_pc = "cancelled" => cancelReq /\ pc # "finally")
  /\ (pc = "await_tail") ~> (pc # "await_tail" /\ TailFinished)

C9_Witness ==
  /\ pc = "done"
  /\ tail_pc = "done"
  /\ ~cancelReq
  /\ sink # <<>>

\* C10: a failed poll emits nothing, keeps position and leaves the task
\* running; what the task has consumed is always exactly the bytes between
\* its first position and position, and a successful poll consumes up to
\* the end of the file.
C10_ReadFailureAbsorbed ==
  /\ [](initPos >= 0 => consumed = SubSeq(file, initPos + 1, position))
  /\ [][/\ (tail_pc = "read" /\ tail_pc' = "emit" /\ lastRead' = "fail") =>
            (position' = position /\ chunk' = <<>> /\ sink' = sink)
        /\ (tail_pc = "emit" /\ lastRead = "fail") =>
            (sink' = sink /\ tail_pc' \in {"emit", "sleep"})
        /\ (tail_pc = "read" /\ tail_pc' = "emit" /\ lastRead' = "ok") =>
            position' = Len(file)]_vars

C10_Witness ==
  /\ hadFail
  /\ lastRead = "ok"
  /\ tail_pc = "sleep"
  /\ initPos = startLen
  /\ Len(sink) = 2
  /\ position = Len(file)

\* C11: the tailing task's first step samples the file size before the
\* child of this session has appended a byte: the first value of position
\* never lies past a byte the child wrote.
C11_CursorBeforeChildWrite ==
  [][(tail_pc = "created" /\ tail_pc' = "check" /\ earlyChild >= 0)
       => position' <= earlyChild]_vars

\* C12: every record is the prefix followed by the trimmed text of one
\* complete, newline-terminated line of the file; no piece of a line and no
\* line without its terminator is emitted.
C12_WholeLines ==
  \A i \in 1..Len(sink) :
    \E k \in 1..Len(FileLines) :
      /\ FileLines[k].off = sink[i].off
      /\ FileLines[k].off + Len(FileLines[k].text) < Len(file)
      /\ sink[i].msg = Prefix \o Strip(FileLines[k].text)

====
